---- MODULE Spec2Model ----
(***************************************************************************)
(* plot_dist of arviz_plots/plots/distplot.py as a state machine.  One     *)
(* call of plot_dist runs through its stages in program order; `stage' is  *)
(* the position in the function body, `loc' holds the local names that are *)
(* bound so far, `coll' is the PlotCollection object, `exc' the exception  *)
(* that ended the call, if any.                                            *)
(***************************************************************************)
EXTENDS Integers, Sequences, FiniteSets, TLC

(* ------------------------------ bounds -------------------------------- *)

\* number of models in a dict input
NModels == 2
\* largest maximum of a kernel density estimate, in whole units
MaxDens == 2
\* calls of plot_dist on one collection
MaxCalls == 2

(* --------------------------- python values ---------------------------- *)

\* the empty dict {}
EmptyDict == [k \in {} |-> 0]

\* key in d
Has(d, k) == k \in DOMAIN d

\* d.get(k, default)
Get(d, k, default) == IF k \in DOMAIN d THEN d[k] ELSE default

\* d.setdefault(k, v), as the dict afterwards
SetDefault(d, k, v) == IF k \in DOMAIN d THEN d ELSE d @@ (k :> v)

\* d[k] = v, as the dict afterwards
SetItem(d, k, v) == (k :> v) @@ d

\* the elements of a list
Elems(s) == {s[i] : i \in DOMAIN s}

\* [x for x in s if x not in drop]
RECURSIVE ListWithout(_, _)
ListWithout(s, drop) ==
  IF s = <<>> THEN <<>>
  ELSE IF Head(s) \in drop THEN ListWithout(Tail(s), drop)
       ELSE <<Head(s)>> \o ListWithout(Tail(s), drop)

(* ------------------------------- data --------------------------------- *)

\* the variables of the posterior group of the test datatrees
VarNames == {"mu", "theta"}

\* the dimensions of the posterior group, in order, for a sample layout
SampleDimsOf(layout) ==
  IF layout = "chain_draw" THEN <<"chain", "draw">> ELSE <<"sample">>

\* process_group_variables_coords: the dataset plot_dist works on; a dict of
\* models is concatenated along a new "model" dimension
ProcessGroupVariablesCoords(dt) ==
  LET sd == SampleDimsOf(dt.layout)
      md == IF dt.multi THEN <<"model">> ELSE <<>>
  IN [dims    |-> md \o sd \o <<"hierarchy">>,
      vardims |-> [v \in VarNames |->
                     Elems(md) \cup Elems(sd)
                       \cup (IF v = "theta" THEN {"hierarchy"} ELSE {})],
      names   |-> VarNames \cup Elems(md) \cup {"hierarchy"},
      maxdens |-> dt.maxdens]

\* "model" in distribution
ModelIn(distribution) == "model" \in distribution.names

\* rcParams of arviz_base as plot_dist reads them
DefaultRcParams ==
  [data_sample_dims     |-> <<"chain", "draw">>,
   stats_ci_prob        |-> 94,
   stats_ci_kind        |-> "eti",
   stats_point_estimate |-> "mean",
   plot_density_kind    |-> "kde",
   plot_backend         |-> "matplotlib"]

VARIABLES
  rcParams,   \* the rcParams mapping
  data,       \* the dt argument: [multi, layout, maxdens]
  args,       \* the other arguments of the running call
  stage,      \* position in the body of plot_dist
  loc,        \* local names bound so far (a dict: unbound names are absent)
  coll,       \* the PlotCollection object, [exists |-> FALSE] before creation
  exc,        \* "none" or the exception raised by the call
  ret,        \* "none", or "coll" when the call returned the collection
  log,        \* what the call has done so far, in order
  calls,      \* completed calls on this collection
  scenario    \* the family of inputs the behaviour draws from

vars == <<rcParams, data, args, stage, loc, coll, exc, ret, log, calls, scenario>>

(* ------------------- plot_kwargs values: mapping or False ------------- *)

\* a plot_kwargs value that is a mapping
Kw(d) == [false |-> FALSE, kw |-> d]

\* a plot_kwargs value that is False
KwFalse == [false |-> TRUE, kw |-> EmptyDict]

\* x is not False
IsNotFalse(x) == ~x.false

\* kwargs.setdefault("color", c) unless the artist takes "color" from an aesthetic
DefaultColor(kwargs, artist_aes, c) ==
  IF "color" \notin artist_aes THEN Kw(SetDefault(kwargs.kw, "color", c)) ELSE kwargs

(* --------------------------- PlotCollection --------------------------- *)

\* no collection yet
NoColl ==
  [exists |-> FALSE, backend |-> "none", aes |-> EmptyDict, cols |-> <<>>,
   col_wrap |-> 0, coords |-> "None", yvals |-> EmptyDict,
   viz |-> [v \in VarNames |-> EmptyDict], axis_removed |-> FALSE]

\* the size of a dimension of the data
DimSize(dim) == IF dim = "model" THEN NModels ELSE 2

\* the number of values an aesthetic takes when mapped to the list dims
RECURSIVE AesSize(_)
AesSize(dims) ==
  IF dims = <<>> THEN 1
  ELSE (IF Head(dims) = "__variable__" THEN Cardinality(VarNames)
        ELSE DimSize(Head(dims))) * AesSize(Tail(dims))

\* PlotCollection.wrap: one plot per variable and facet coordinate, the given
\* aesthetic mappings; the "y" aesthetic takes the values 0, 1, ... (kept in
\* units of 1/10000)
Wrap(distribution, backend, pc_kwargs) ==
  LET aes == Get(pc_kwargs, "aes", EmptyDict)
      facets == Elems(pc_kwargs.cols) \ {"__variable__"}
  IN [exists   |-> TRUE,
      backend  |-> backend,
      aes      |-> aes,
      cols     |-> pc_kwargs.cols,
      col_wrap |-> pc_kwargs.col_wrap,
      coords   |-> "None",
      yvals    |-> IF Has(aes, "y")
                   THEN [v \in VarNames |->
                           [i \in 1..AesSize(aes["y"]) |-> (i - 1) * 10000]]
                   ELSE EmptyDict,
      viz      |-> [v \in VarNames |->
                      ("plot" :> [dims |-> facets \cap distribution.vardims[v],
                                  kwargs |-> EmptyDict])],
      axis_removed |-> FALSE]

\* PlotCollection.aes_set
AesSet(pc) == DOMAIN pc.aes

\* PlotCollection.update_aes: the dimensions looped over when the aesthetics
\* in ignore_aes are left out (facetting dimensions and mapped dimensions)
AllLoopDims(pc, ignore_aes) ==
  ((Elems(pc.cols)
     \cup UNION {Elems(pc.aes[a]) : a \in AesSet(pc) \ ignore_aes})
   \ {"__variable__"})

\* PlotCollection.map with store_artist=True: one artist entry fun_label per
\* variable, with the looped dimensions that variable has
MapArtist(pc, distribution, fun_label, ignore_aes, kwargs) ==
  [pc EXCEPT !.viz =
     [v \in VarNames |->
        SetItem(pc.viz[v], fun_label,
                [dims   |-> AllLoopDims(pc, ignore_aes) \cap distribution.vardims[v],
                 kwargs |-> kwargs.kw])]]

\* plots.utils.filter_aes: (artist_dims, artist_aes, ignore_aes)
FilterAes(pc, aes_map, artist, sample_dims) ==
  LET artist_aes == Get(aes_map, artist, {})
      ignore_aes == AesSet(pc) \ artist_aes
  IN [dims   |-> ListWithout(sample_dims, AllLoopDims(pc, ignore_aes)),
      aes    |-> artist_aes,
      ignore |-> ignore_aes]

(* ------------------------------ plot_dist ----------------------------- *)

\* lines 93-105: the plot_kwargs and aes_map keys that name an artist
ArtistKeysOf(kind) ==
  {kind, "credible_interval", "point_estimate", "point_estimate_text", "title"}

Raise(e) ==
  /\ stage' = "raised"
  /\ exc' = e

Bind(name, value) == SetItem(loc, name, value)

\* ci_kind not in ("hdi", "eti", None); an argument that is None is absent
\* from args
CiKindInvalid(a) == Has(a, "ci_kind") /\ a.ci_kind \notin {"hdi", "eti"}

\* lines 165-166
CheckCiKind ==
  /\ stage = "ci_check"
  /\ IF CiKindInvalid(args)
     THEN Raise("ValueError")
     ELSE stage' = "defaults" /\ exc' = exc
  /\ UNCHANGED <<rcParams, data, args, loc, coll, ret, log, calls, scenario>>

\* a string iterated as a sequence of its characters
Characters(s) ==
  IF s = "sample" THEN <<"s", "a", "m", "p", "l", "e">> ELSE <<s>>

\* sample_dims with a string taken as an iterable of names
ResolveSampleDimsIterated(a, rc) ==
  IF ~Has(a, "sample_dims") THEN rc.data_sample_dims
  ELSE IF a.sample_dims.str THEN Characters(a.sample_dims.v)
  ELSE a.sample_dims.v

\* lines 168-171: sample_dims, with a single string wrapped in a list
ResolveSampleDims(a, rc) ==
  IF ~Has(a, "sample_dims") THEN rc.data_sample_dims
  ELSE IF a.sample_dims.str THEN <<a.sample_dims.v>>
  ELSE a.sample_dims.v

\* lines 172-173
ResolveCiProb(a, rc) == IF Has(a, "ci_prob") THEN a.ci_prob ELSE rc.stats_ci_prob

\* ci_kind defaulting to "eti" whatever rcParams holds
ResolveCiKindWithoutRcParams(a, rc) ==
  IF Has(a, "ci_kind") THEN a.ci_kind ELSE "eti"

\* lines 174-175
ResolveCiKind(a, rc) ==
  IF Has(a, "ci_kind") THEN a.ci_kind
  ELSE IF Has(rc, "stats_ci_kind") THEN rc.stats_ci_kind ELSE "eti"

\* lines 176-177
ResolvePointEstimate(a, rc) ==
  IF Has(a, "point_estimate") THEN a.point_estimate ELSE rc.stats_point_estimate

\* lines 178-179
ResolveKind(a, rc) == IF Has(a, "kind") THEN a.kind ELSE rc.plot_density_kind

\* lines 168-188
Defaults ==
  /\ stage = "defaults"
  /\ loc' = [sample_dims    |-> ResolveSampleDims(args, rcParams),
             ci_prob        |-> ResolveCiProb(args, rcParams),
             ci_kind        |-> ResolveCiKind(args, rcParams),
             point_estimate |-> ResolvePointEstimate(args, rcParams),
             kind           |-> ResolveKind(args, rcParams),
             plot_kwargs    |-> Get(args, "plot_kwargs", EmptyDict),
             pc_kwargs      |-> Get(args, "pc_kwargs", EmptyDict)]
  /\ stage' = "process"
  /\ UNCHANGED <<rcParams, data, args, coll, exc, ret, log, calls, scenario>>

\* lines 190-192
Process ==
  /\ stage = "process"
  /\ loc' = Bind("distribution", ProcessGroupVariablesCoords(data))
  /\ log' = Append(log, "process")
  /\ stage' = "collection"
  /\ UNCHANGED <<rcParams, data, args, coll, exc, ret, calls, scenario>>

\* the sample dimensions left among the facetting columns
DefaultColsWithSampleDims(distribution, sample_dims) ==
  <<"__variable__">> \o ListWithout(distribution.dims, {"model"})

\* lines 198-202: the default facetting columns
DefaultCols(distribution, sample_dims) ==
  <<"__variable__">>
    \o ListWithout(distribution.dims, {"model"} \cup Elems(sample_dims))

\* "color" and "y" mapped to "model" whatever the data
ModelAesAlways(distribution, pc_kwargs) ==
  SetItem(pc_kwargs, "aes",
          SetDefault(SetDefault(Get(pc_kwargs, "aes", EmptyDict), "color", <<"model">>),
                     "y", <<"model">>))

\* "color" and "y" mapped to "model" over what the caller gave
ModelAesOverriding(distribution, pc_kwargs) ==
  IF ModelIn(distribution)
  THEN SetItem(pc_kwargs, "aes",
               SetItem(SetItem(Get(pc_kwargs, "aes", EmptyDict), "color", <<"model">>),
                       "y", <<"model">>))
  ELSE pc_kwargs

\* lines 203-206: the aesthetics generated for multiple models
ModelAes(distribution, pc_kwargs) ==
  IF ModelIn(distribution)
  THEN SetItem(pc_kwargs, "aes",
               SetDefault(SetDefault(Get(pc_kwargs, "aes", EmptyDict),
                                     "color", <<"model">>),
                          "y", <<"model">>))
  ELSE pc_kwargs

\* lines 197-206: pc_kwargs as passed to PlotCollection.wrap
WrapKwargs(distribution, sample_dims, pc_kwargs) ==
  ModelAes(distribution,
           SetDefault(SetDefault(pc_kwargs, "col_wrap", 5),
                      "cols", DefaultCols(distribution, sample_dims)))

\* a new collection created even when one is passed
CollectionAlwaysCreated ==
  /\ stage = "collection"
  /\ LET backend == Get(args, "backend", rcParams.plot_backend)
         kw == WrapKwargs(loc.distribution, loc.sample_dims, loc.pc_kwargs)
     IN /\ loc' = SetItem(SetItem(loc, "pc_kwargs", kw), "backend", backend)
        /\ coll' = Wrap(loc.distribution, backend, kw)
        /\ log' = Append(log, "wrap")
  /\ stage' = "aes_map"
  /\ UNCHANGED <<rcParams, data, args, exc, ret, calls, scenario>>

\* lines 194-211
Collection ==
  /\ stage = "collection"
  /\ IF ~Has(args, "plot_collection")
     THEN LET backend == Get(args, "backend", rcParams.plot_backend)
              kw == WrapKwargs(loc.distribution, loc.sample_dims, loc.pc_kwargs)
          IN /\ loc' = SetItem(SetItem(loc, "pc_kwargs", kw), "backend", backend)
             /\ coll' = Wrap(loc.distribution, backend, kw)
             /\ log' = Append(log, "wrap")
     ELSE UNCHANGED <<loc, coll, log>>
  /\ stage' = "aes_map"
  /\ UNCHANGED <<rcParams, data, args, exc, ret, calls, scenario>>

\* every aesthetic, "y" included, mapped to the density
DensityAesWithY(aes_map, kind, pc) == SetDefault(aes_map, kind, AesSet(pc))

\* line 217: aes_map.setdefault(kind, plot_collection.aes_set.difference("y"))
DensityAes(aes_map, kind, pc) == SetDefault(aes_map, kind, AesSet(pc) \ {"y"})

\* lines 218-220
ModelAesMap(aes_map, distribution) ==
  IF ModelIn(distribution)
  THEN SetDefault(SetDefault(aes_map, "credible_interval", {"color", "y"}),
                  "point_estimate", {"color", "y"})
  ELSE aes_map

\* the text always given the aesthetics of the point
TextAesMapAlways(aes_map) ==
  IF Has(aes_map, "point_estimate")
  THEN SetItem(aes_map, "point_estimate_text", aes_map["point_estimate"])
  ELSE aes_map

\* lines 221-222
TextAesMap(aes_map) ==
  IF Has(aes_map, "point_estimate") /\ ~Has(aes_map, "point_estimate_text")
  THEN SetItem(aes_map, "point_estimate_text", aes_map["point_estimate"])
  ELSE aes_map

\* lines 213-222: the effective aes_map
EffectiveAesMap(given, kind, pc, distribution) ==
  TextAesMap(ModelAesMap(DensityAes(given, kind, pc), distribution))

\* lines 213-224
AesMap ==
  /\ stage = "aes_map"
  /\ loc' = Bind("aes_map",
                 EffectiveAesMap(Get(args, "aes_map", EmptyDict), loc.kind, coll,
                                 loc.distribution))
  /\ stage' = "density"
  /\ UNCHANGED <<rcParams, data, args, coll, exc, ret, log, calls, scenario>>

\* line 227: density_kwargs = copy(plot_kwargs.get(kind, {}))
DensityKwargs(plot_kwargs, kind) == Get(plot_kwargs, kind, Kw(EmptyDict))

\* every kind taken to have a density branch
DensityImplementedForAll(kind) == kind \in {"kde", "ecdf", "hist", "dot"}

\* lines 231, 242, 257: the kinds with a density branch
DensityImplemented(kind) == kind \in {"kde", "ecdf"}

\* azstats.kde / azstats.ecdf over dims: per variable, the maximum of the
\* "y" values (an ecdf ends at 1)
DensityStat(kind, dims, distribution) ==
  [kind |-> kind, dims |-> dims,
   max  |-> [v \in VarNames |-> IF kind = "kde" THEN distribution.maxdens[v] ELSE 1]]

\* lines 226-258
Density ==
  /\ stage = "density"
  /\ LET density_kwargs == DensityKwargs(loc.plot_kwargs, loc.kind)
         f == FilterAes(coll, loc.aes_map, loc.kind, loc.sample_dims)
     IN IF IsNotFalse(density_kwargs)
        THEN IF DensityImplemented(loc.kind)
             THEN /\ loc' = SetItem(Bind("density_kwargs", density_kwargs), "density",
                                    DensityStat(loc.kind, f.dims, loc.distribution))
                  /\ coll' = MapArtist(coll, loc.distribution, loc.kind, f.ignore,
                                       density_kwargs)
                  /\ log' = log \o <<"stat:density", "map:density">>
                  /\ stage' = "rescale"
                  /\ exc' = exc
             ELSE /\ loc' = Bind("density_kwargs", density_kwargs)
                  /\ Raise("NotImplementedError")
                  /\ UNCHANGED <<coll, log>>
        ELSE /\ loc' = Bind("density_kwargs", density_kwargs)
             /\ stage' = "rescale"
             /\ UNCHANGED <<coll, log, exc>>
  /\ UNCHANGED <<rcParams, data, args, ret, calls, scenario>>

\* line 261: density_kwargs is not None; a mapping or False never is None
IsNotNone(density_kwargs) == TRUE

\* lines 260-264: the condition of the "y" rescaling
RescaleCondition(density_kwargs, distribution, pc) ==
  /\ IsNotNone(density_kwargs)
  /\ ModelIn(distribution)
  /\ pc.coords = "None"

\* lines 266-269: 0.15 * y * (maximum of the density over its own dimension
\* and "model"), per variable
RescaledY(yvals, density) ==
  [v \in VarNames |->
     [i \in DOMAIN yvals[v] |-> (15 * yvals[v][i] * density.max[v]) \div 100]]

\* lines 260-270
Rescale ==
  /\ stage = "rescale"
  /\ IF RescaleCondition(loc.density_kwargs, loc.distribution, coll)
     THEN IF ~Has(coll.aes, "y")
          THEN Raise("KeyError") /\ UNCHANGED <<coll, log>>
          ELSE IF ~Has(loc, "density")
          THEN Raise("UnboundLocalError") /\ UNCHANGED <<coll, log>>
          ELSE /\ coll' = [coll EXCEPT !.yvals = RescaledY(coll.yvals, loc.density)]
               /\ log' = Append(log, "rescale_y")
               /\ stage' = "credible_interval"
               /\ exc' = exc
     ELSE /\ stage' = "credible_interval"
          /\ UNCHANGED <<coll, log, exc>>
  /\ UNCHANGED <<rcParams, data, args, loc, ret, calls, scenario>>

\* the two interval statistics exchanged
CiFunctionSwapped(ci_kind) ==
  IF ci_kind = "eti" THEN "hdi" ELSE IF ci_kind = "hdi" THEN "eti" ELSE "unbound"

\* lines 278-285: the statistic computing the interval, "unbound" when no
\* branch assigns ci
CiFunction(ci_kind) ==
  IF ci_kind = "eti" THEN "eti" ELSE IF ci_kind = "hdi" THEN "hdi" ELSE "unbound"

\* lines 272-289
CredibleInterval ==
  /\ stage = "credible_interval"
  /\ LET ci_kwargs == Get(loc.plot_kwargs, "credible_interval", Kw(EmptyDict))
         f == FilterAes(coll, loc.aes_map, "credible_interval", loc.sample_dims)
         fn == CiFunction(loc.ci_kind)
     IN IF IsNotFalse(ci_kwargs)
        THEN IF fn = "unbound"
             THEN Raise("UnboundLocalError") /\ UNCHANGED <<loc, coll, log>>
             ELSE /\ loc' = Bind("ci", [fn |-> fn, prob |-> loc.ci_prob, dims |-> f.dims])
                  /\ coll' = MapArtist(coll, loc.distribution, "credible_interval",
                                       f.ignore, DefaultColor(ci_kwargs, f.aes, "gray"))
                  /\ log' = log \o <<"stat:" \o fn, "map:credible_interval">>
                  /\ stage' = "point"
                  /\ exc' = exc
        ELSE /\ stage' = "point"
             /\ UNCHANGED <<loc, coll, log, exc>>
  /\ UNCHANGED <<rcParams, data, args, ret, calls, scenario>>

\* lines 298-303: the point statistics with a branch
PointImplemented(point_estimate) == point_estimate \in {"median", "mean"}

\* the point statistic computed only when both artists are drawn
PointNeededBoth(pe_kwargs, pet_kwargs) == IsNotFalse(pe_kwargs) /\ IsNotFalse(pet_kwargs)

\* line 294
PointNeeded(pe_kwargs, pet_kwargs) == IsNotFalse(pe_kwargs) \/ IsNotFalse(pet_kwargs)

\* lines 291-303
PointStat ==
  /\ stage = "point"
  /\ LET pe_kwargs == Get(loc.plot_kwargs, "point_estimate", Kw(EmptyDict))
         pet_kwargs == Get(loc.plot_kwargs, "point_estimate_text", Kw(EmptyDict))
         f == FilterAes(coll, loc.aes_map, "point_estimate", loc.sample_dims)
         l == SetItem(Bind("pe_kwargs", pe_kwargs), "pet_kwargs", pet_kwargs)
     IN IF PointNeeded(pe_kwargs, pet_kwargs)
        THEN IF PointImplemented(loc.point_estimate)
             THEN /\ loc' = l @@ [pe_aes |-> f.aes, pe_ignore |-> f.ignore,
                                  point |-> [fn |-> loc.point_estimate, dims |-> f.dims]]
                  /\ log' = Append(log, "stat:" \o loc.point_estimate)
                  /\ stage' = "point_estimate"
                  /\ exc' = exc
             ELSE /\ loc' = l
                  /\ Raise("NotImplementedError")
                  /\ log' = log
        ELSE /\ loc' = l
             /\ stage' = "point_estimate"
             /\ UNCHANGED <<log, exc>>
  /\ UNCHANGED <<rcParams, data, args, coll, ret, calls, scenario>>

\* lines 305-314
PointEstimate ==
  /\ stage = "point_estimate"
  /\ IF IsNotFalse(loc.pe_kwargs)
     THEN IF ~(Has(loc, "pe_aes") /\ Has(loc, "point"))
          THEN Raise("UnboundLocalError") /\ UNCHANGED <<coll, log>>
          ELSE /\ coll' = MapArtist(coll, loc.distribution, "point_estimate", loc.pe_ignore,
                                    DefaultColor(loc.pe_kwargs, loc.pe_aes, "gray"))
               /\ log' = Append(log, "map:point_estimate")
               /\ stage' = "point_estimate_text"
               /\ exc' = exc
     ELSE /\ stage' = "point_estimate_text"
          /\ UNCHANGED <<coll, log, exc>>
  /\ UNCHANGED <<rcParams, data, args, loc, ret, calls, scenario>>

\* the text at 0.04 whether or not the density is drawn
PointYWithoutOnes(density_kwargs, kind, l) ==
  IF ~IsNotFalse(density_kwargs) THEN [v \in VarNames |-> 4]
  ELSE IF kind = "kde" THEN [v \in VarNames |-> 4 * l.density.max[v]]
  ELSE IF kind = "ecdf" THEN [v \in VarNames |-> 4]
  ELSE "unbound"

\* lines 316-326: the height of the text in hundredths, "unbound" when no
\* branch assigns point_y
PointY(density_kwargs, kind, l) ==
  IF ~IsNotFalse(density_kwargs) THEN [v \in VarNames |-> 100]
  ELSE IF kind = "kde" THEN [v \in VarNames |-> 4 * l.density.max[v]]
  ELSE IF kind = "ecdf" THEN [v \in VarNames |-> 4]
  ELSE "unbound"

\* lines 315-343
PointEstimateText ==
  /\ stage = "point_estimate_text"
  /\ IF IsNotFalse(loc.pet_kwargs)
     THEN IF ~Has(loc, "point")
             \/ (IsNotFalse(loc.density_kwargs) /\ loc.kind = "kde" /\ ~Has(loc, "density"))
             \/ (IsNotFalse(loc.density_kwargs) /\ loc.kind \notin {"kde", "ecdf"})
          THEN Raise("UnboundLocalError") /\ UNCHANGED <<loc, coll, log>>
          ELSE LET f == FilterAes(coll, loc.aes_map, "point_estimate_text", loc.sample_dims)
                   kw == DefaultColor(loc.pet_kwargs, f.aes, "gray")
               IN /\ loc' = Bind("point_y", PointY(loc.density_kwargs, loc.kind, loc))
                  /\ coll' = MapArtist(coll, loc.distribution, "point_estimate_text", f.ignore,
                               Kw(SetDefault(SetDefault(kw.kw, "horizontal_align", "center"),
                                             "point_label", "x")))
                  /\ log' = Append(log, "map:point_estimate_text")
                  /\ stage' = "title"
                  /\ exc' = exc
     ELSE /\ stage' = "title"
          /\ UNCHANGED <<loc, coll, log, exc>>
  /\ UNCHANGED <<rcParams, data, args, ret, calls, scenario>>

\* lines 345-358
Title ==
  /\ stage = "title"
  /\ LET title_kwargs == Get(loc.plot_kwargs, "title", Kw(EmptyDict))
         f == FilterAes(coll, loc.aes_map, "title", loc.sample_dims)
     IN IF IsNotFalse(title_kwargs)
        THEN /\ coll' = MapArtist(coll, loc.distribution, "title", f.ignore,
                                  DefaultColor(title_kwargs, f.aes, "black"))
             /\ log' = Append(log, "map:title")
        ELSE UNCHANGED <<coll, log>>
  /\ stage' = "remove_axis"
  /\ UNCHANGED <<rcParams, data, args, loc, exc, ret, calls, scenario>>

\* remove_axis called for every kind
RemoveAxisAnyKind(kind, plot_kwargs) ==
  IsNotFalse(Get(plot_kwargs, "remove_axis", Kw(EmptyDict)))

\* line 359: the condition of the remove_axis call
RemoveAxisCondition(kind, plot_kwargs) ==
  kind = "kde" /\ IsNotFalse(Get(plot_kwargs, "remove_axis", Kw(EmptyDict)))

\* lines 359-362
RemoveAxis ==
  /\ stage = "remove_axis"
  /\ IF RemoveAxisCondition(loc.kind, loc.plot_kwargs)
     THEN /\ coll' = [coll EXCEPT !.axis_removed = TRUE]
          /\ log' = Append(log, "map:remove_axis")
     ELSE UNCHANGED <<coll, log>>
  /\ stage' = "return"
  /\ UNCHANGED <<rcParams, data, args, loc, exc, ret, calls, scenario>>

\* line 364
Return ==
  /\ stage = "return"
  /\ ret' = "coll"
  /\ calls' = calls + 1
  /\ stage' = "done"
  /\ UNCHANGED <<rcParams, data, args, loc, coll, exc, log, scenario>>

(* ------------------------------- inputs ------------------------------- *)

\* the plot_kwargs keys by role; the density key is the name of the kind
Roles ==
  {"density", "credible_interval", "point_estimate", "point_estimate_text", "title",
   "remove_axis"}

RoleKey(role, kind) == IF role = "density" THEN kind ELSE role

\* a plot_kwargs value by name
KwNamed(name) ==
  CASE name = "empty" -> Kw(EmptyDict)
    [] name = "False" -> KwFalse
    [] name = "red"   -> Kw([color |-> "red"])

\* the plot_kwargs dict that gives each role the value chosen for it, roles
\* chosen "absent" left out
PlotKwargsDict(kind, choice) ==
  LET present == {r \in Roles : choice[r] # "absent"}
  IN [K \in {RoleKey(r, kind) : r \in present} |->
        KwNamed(choice[CHOOSE r \in present : RoleKey(r, kind) = K])]

\* a dict with the keys of present, each with its value in full
Restrict(full, present) == [k \in present |-> full[k]]

UnitDens == [v \in VarNames |-> 1]

FirstCall ==
  /\ rcParams = DefaultRcParams
  /\ stage = "ci_check"
  /\ loc = EmptyDict
  /\ coll = NoColl
  /\ exc = "none"
  /\ ret = "none"
  /\ log = <<>>
  /\ calls = 0

\* test_plot_dist of test_hypothesis_plots.py: a single model, each artist key
\* absent, {}, False or {"color": "red"}, remove_axis absent or False
InitKwargs ==
  /\ scenario = "kwargs"
  /\ data = [multi |-> FALSE, layout |-> "chain_draw", maxdens |-> UnitDens]
  /\ \E k \in {"kde", "ecdf"}, c \in {"eti", "hdi"}, p \in {"mean", "median"},
        choice \in [Roles -> {"absent", "empty", "False", "red"}] :
       /\ choice["remove_axis"] \in {"absent", "False"}
       /\ args = [kind |-> k, ci_kind |-> c, point_estimate |-> p, backend |-> "none",
                  plot_kwargs |-> PlotKwargsDict(k, choice)]
  /\ FirstCall

\* every documented option value and an invalid ci_kind, one or several
\* models, every artist either left to its default or disabled
InitOptions ==
  /\ scenario = "options"
  /\ \E m \in BOOLEAN :
       data = [multi |-> m, layout |-> "chain_draw", maxdens |-> UnitDens]
  /\ \E k \in {"kde", "ecdf", "hist", "dot"}, c \in {"eti", "hdi", "bad"},
        p \in {"mean", "median", "mode"}, choice \in [Roles -> {"absent", "False"}] :
       args = [kind |-> k, ci_kind |-> c, point_estimate |-> p, backend |-> "none",
               plot_kwargs |-> PlotKwargsDict(k, choice)]
  /\ FirstCall

\* the aes_map entries a caller gives
CallerAesMap(kind) ==
  (kind :> {"y"}) @@
  [credible_interval |-> {"color"}, point_estimate |-> {"y"},
   point_estimate_text |-> {"color"}, title |-> {"color"}]

\* the aesthetic mappings a caller gives in pc_kwargs["aes"]
CallerAes ==
  [color |-> <<"hierarchy">>, y |-> <<"hierarchy">>, marker |-> <<"__variable__">>]

\* aesthetic mappings given by the caller in pc_kwargs and aes_map
InitAes ==
  /\ scenario = "aes"
  /\ \E m \in BOOLEAN :
       data = [multi |-> m, layout |-> "chain_draw", maxdens |-> UnitDens]
  /\ \E k \in {"kde", "ecdf"}, hasaes \in BOOLEAN, pa \in SUBSET DOMAIN CallerAes,
        pk \in SUBSET {"cols", "col_wrap"} :
     \E am \in SUBSET ArtistKeysOf(k) :
       /\ ~hasaes => pa = {}
       /\ args = [kind |-> k, backend |-> "none",
                  aes_map |-> Restrict(CallerAesMap(k), am),
                  pc_kwargs |->
                    Restrict([cols |-> <<"__variable__">>, col_wrap |-> 3,
                              aes |-> Restrict(CallerAes, pa)],
                             pk \cup (IF hasaes THEN {"aes"} ELSE {}))]
  /\ FirstCall

\* arguments of calls that may be repeated on the returned collection
ReuseArgs ==
  UNION {
    {[kind |-> k, ci_kind |-> c, point_estimate |-> p, backend |-> "none",
      plot_kwargs |-> pk] :
       c \in {"eti", "bad"}, p \in {"mean", "mode"},
       pk \in {EmptyDict, (k :> KwFalse)}} :
    k \in {"kde", "hist"}}

InitReuse ==
  /\ scenario = "reuse"
  /\ \E m \in BOOLEAN, d \in [VarNames -> 1..MaxDens] :
       data = [multi |-> m, layout |-> "chain_draw", maxdens |-> d]
  /\ args \in ReuseArgs
  /\ FirstCall

\* rcParams with other values than the defaults, with or without an entry
\* for "stats.ci_kind"
OtherRcParams ==
  [data_sample_dims     |-> <<"sample">>,
   stats_ci_prob        |-> 50,
   stats_ci_kind        |-> "hdi",
   stats_point_estimate |-> "median",
   plot_density_kind    |-> "ecdf",
   plot_backend         |-> "bokeh"]

RcParamsChoices ==
  {DefaultRcParams, OtherRcParams,
   Restrict(OtherRcParams, DOMAIN OtherRcParams \ {"stats_ci_kind"})}

\* sample_dims arguments: a single string or a list of names
SampleDimsChoice(name) ==
  CASE name = "none"       -> EmptyDict
    [] name = "string"     -> [sample_dims |-> [str |-> TRUE, v |-> "sample"]]
    [] name = "list"       -> [sample_dims |-> [str |-> FALSE, v |-> <<"sample">>]]
    [] name = "chain_draw" -> [sample_dims |-> [str |-> FALSE, v |-> <<"chain", "draw">>]]

\* explicit values of the arguments that default to rcParams
ExplicitChoices ==
  [kind |-> "kde", point_estimate |-> "mean", ci_kind |-> "eti", ci_prob |-> 80]

\* the dimensions the caller means to reduce over with each choice
SampleDimsMeant(name, rc) ==
  CASE name = "none"       -> rc.data_sample_dims
    [] name = "string"     -> <<"sample">>
    [] name = "list"       -> <<"sample">>
    [] name = "chain_draw" -> <<"chain", "draw">>

\* each of sample_dims, kind, point_estimate, ci_kind and ci_prob either left
\* None or given, under several rcParams; the data has the sample dimensions
\* the call reduces over (test_plot_dist_sample)
InitDefaults ==
  /\ scenario = "defaults"
  /\ rcParams \in RcParamsChoices
  /\ \E given \in SUBSET DOMAIN ExplicitChoices,
        sd \in {"none", "string", "list", "chain_draw"} :
       /\ args = SampleDimsChoice(sd) @@ Restrict(ExplicitChoices, given)
                   @@ [backend |-> "none"]
       /\ \E m \in BOOLEAN, lay \in {"chain_draw", "sample"} :
            /\ SampleDimsOf(lay) = SampleDimsMeant(sd, rcParams)
            /\ data = [multi |-> m, layout |-> lay, maxdens |-> UnitDens]
  /\ stage = "ci_check"
  /\ loc = EmptyDict
  /\ coll = NoColl
  /\ exc = "none"
  /\ ret = "none"
  /\ log = <<>>
  /\ calls = 0

Init == InitKwargs \/ InitOptions \/ InitAes \/ InitReuse \/ InitDefaults

\* backend and pc_kwargs arguments given along with a plot_collection
ReuseExtras ==
  {EmptyDict,
   [backend |-> "bokeh",
    pc_kwargs |-> [cols |-> <<"__variable__">>, col_wrap |-> 3,
                   aes |-> [color |-> <<"hierarchy">>]]]}

\* another call of plot_dist, on the collection the last call returned; the
\* plot_collection argument is that collection as it is when passed
Call ==
  /\ stage = "done"
  /\ scenario = "reuse"
  /\ calls < MaxCalls
  /\ \E a \in ReuseArgs, x \in ReuseExtras :
       args' = x @@ a @@ [plot_collection |-> coll]
  /\ stage' = "ci_check"
  /\ loc' = EmptyDict
  /\ exc' = "none"
  /\ ret' = "none"
  /\ log' = <<>>
  /\ UNCHANGED <<rcParams, data, coll, calls, scenario>>

Next ==
  \/ CheckCiKind
  \/ Defaults
  \/ Process
  \/ Collection
  \/ AesMap
  \/ Density
  \/ Rescale
  \/ CredibleInterval
  \/ PointStat
  \/ PointEstimate
  \/ PointEstimateText
  \/ Title
  \/ RemoveAxis
  \/ Return
  \/ Call

Spec == Init /\ [][Next]_vars

(* ------------------------------- claims ------------------------------- *)

\* the call creates its own collection
OwnCollection == ~Has(args, "plot_collection")

\* the plot_kwargs argument and its artist keys for the kind argument
GivenPlotKwargs == Get(args, "plot_kwargs", EmptyDict)

DisabledKeys(kind) ==
  {K \in ArtistKeysOf(kind) : Has(GivenPlotKwargs, K) /\ ~IsNotFalse(GivenPlotKwargs[K])}

MappingKeys(kind) ==
  {K \in ArtistKeysOf(kind) : Has(GivenPlotKwargs, K) /\ IsNotFalse(GivenPlotKwargs[K])}

NotRaised == exc = "none" /\ stage # "raised"

\* the arguments test_plot_dist draws: kind, ci_kind and point_estimate given,
\* among the supported values
HypothesisArgs ==
  /\ Has(args, "kind") /\ args.kind \in {"kde", "ecdf"}
  /\ Has(args, "ci_kind") /\ args.ci_kind \in {"eti", "hdi"}
  /\ Has(args, "point_estimate") /\ args.point_estimate \in {"mean", "median"}

\* C1: for a single model, kind in {kde, ecdf}, ci_kind in {eti, hdi},
\* point_estimate in {mean, median} and plot_kwargs values absent, {}, False or
\* {"color": "red"}, plot_dist does not raise, and the returned collection has
\* for every variable a "plot" entry, no artist entry for a key set to False,
\* and an artist entry for every artist key set to a mapping.
C1_SingleModelArtists ==
  (~data.multi /\ OwnCollection /\ HypothesisArgs) =>
    /\ NotRaised
    /\ stage = "done" =>
         \A v \in VarNames :
           /\ "plot" \in DOMAIN coll.viz[v]
           /\ \A K \in DisabledKeys(args.kind) : K \notin DOMAIN coll.viz[v]
           /\ \A K \in MappingKeys(args.kind) : K \in DOMAIN coll.viz[v]

C1_Witness ==
  /\ stage = "done" /\ ret = "coll" /\ ~data.multi /\ OwnCollection /\ HypothesisArgs
  /\ args.kind = "ecdf"
  /\ DisabledKeys("ecdf") = {"ecdf", "point_estimate"}
  /\ MappingKeys("ecdf") = {"point_estimate_text", "title"}
  /\ Has(GivenPlotKwargs, "remove_axis")
  /\ DOMAIN coll.viz["mu"] = {"plot", "credible_interval", "point_estimate_text", "title"}

\* C2: for several models and a collection created by plot_dist, any subset of
\* the artist keys may be set to False: plot_dist does not raise and returns a
\* collection lacking exactly the artists set to False.
C2_MultiModelDisabled ==
  (data.multi /\ OwnCollection /\ HypothesisArgs
     /\ \A K \in DOMAIN GivenPlotKwargs : ~IsNotFalse(GivenPlotKwargs[K])) =>
    /\ NotRaised
    /\ stage = "done" =>
         \A v \in VarNames :
           DOMAIN coll.viz[v] = {"plot"} \cup (ArtistKeysOf(args.kind) \ DisabledKeys(args.kind))

\* C3: with default plot_kwargs, every kind among kde, hist, ecdf and dot
\* completes and every variable has an artist entry named after the kind.
C3_EveryKindDrawn ==
  (OwnCollection /\ Has(args, "kind") /\ args.kind \in {"kde", "hist", "ecdf", "dot"}
     /\ Has(args, "ci_kind") /\ args.ci_kind \in {"eti", "hdi"}
     /\ Has(args, "point_estimate") /\ args.point_estimate \in {"mean", "median"}
     /\ GivenPlotKwargs = EmptyDict) =>
    /\ NotRaised
    /\ stage = "done" => \A v \in VarNames : args.kind \in DOMAIN coll.viz[v]

\* C4: with default plot_kwargs, every point_estimate among mean, median and
\* mode is computed and the point_estimate and point_estimate_text artists are
\* drawn, without raising.
C4_EveryPointEstimateDrawn ==
  (OwnCollection /\ Has(args, "kind") /\ args.kind \in {"kde", "ecdf"}
     /\ Has(args, "ci_kind") /\ args.ci_kind \in {"eti", "hdi"}
     /\ Has(args, "point_estimate") /\ args.point_estimate \in {"mean", "median", "mode"}
     /\ GivenPlotKwargs = EmptyDict) =>
    /\ NotRaised
    /\ stage = "done" =>
         /\ loc.point.fn = args.point_estimate
         /\ \A v \in VarNames :
              {"point_estimate", "point_estimate_text"} \subseteq DOMAIN coll.viz[v]

\* the statistics computed so far by the call
StatsLogged == {log[i] : i \in DOMAIN log} \cap {"stat:eti", "stat:hdi"}

\* C5: every ci_kind other than "hdi", "eti" or None raises ValueError before
\* the data is processed, a collection created or an artist drawn; "eti"
\* computes the interval with eti and "hdi" with hdi, never the other one.
C5_CiKindValidation ==
  /\ CiKindInvalid(args) =>
       /\ stage \in {"ci_check", "raised"}
       /\ stage = "raised" => exc = "ValueError"
       /\ log = <<>>
       /\ loc = EmptyDict
       /\ OwnCollection => ~coll.exists
  /\ exc = "ValueError" => CiKindInvalid(args)
  /\ (Has(args, "ci_kind") /\ args.ci_kind \in {"eti", "hdi"}) =>
       /\ StatsLogged \subseteq {"stat:" \o args.ci_kind}
       /\ Has(loc, "ci") => (loc.ci.fn = args.ci_kind /\ StatsLogged # {})

C5_Witness ==
  /\ stage = "raised" /\ exc = "ValueError" /\ args.ci_kind = "bad"
  /\ Has(args, "plot_collection") /\ coll.exists /\ calls = 1
  /\ log = <<>> /\ loc = EmptyDict

\* the aesthetic mappings and the aes_map the caller gave
GivenAes == Get(Get(args, "pc_kwargs", EmptyDict), "aes", EmptyDict)

GivenAesMap == Get(args, "aes_map", EmptyDict)

\* C6: with a single model, no plot_collection argument and no "aes" entry in
\* pc_kwargs, the collection plot_dist creates has no aesthetic mapping, for
\* every kind.
C6_SingleModelNoAes ==
  (~data.multi /\ OwnCollection /\ ~Has(Get(args, "pc_kwargs", EmptyDict), "aes")
     /\ coll.exists) =>
    /\ AesSet(coll) = {}
    /\ coll.yvals = EmptyDict

C6_Witness ==
  /\ stage = "done" /\ ~data.multi /\ OwnCollection /\ coll.exists
  /\ Has(args, "pc_kwargs") /\ ~Has(args.pc_kwargs, "aes") /\ Has(args.pc_kwargs, "cols")
  /\ args.kind = "ecdf"
  /\ AesSet(coll) = {}

\* the density artist of variable v has dimension "model"
DensityHasModel(v) ==
  Has(coll.viz[v], loc.kind) => "model" \in coll.viz[v][loc.kind].dims

\* the parts of C7 about the aesthetic mappings of the created collection
ModelAesKept ==
  /\ coll.aes["color"] = Get(GivenAes, "color", <<"model">>)
  /\ coll.aes["y"] = Get(GivenAes, "y", <<"model">>)
  /\ \A a \in DOMAIN GivenAes : coll.aes[a] = GivenAes[a]
  /\ AesSet(coll) = DOMAIN GivenAes \cup {"color", "y"}

DensityModelAes ==
  {a \in Get(loc.aes_map, loc.kind, {}) \cap AesSet(coll) : "model" \in Elems(coll.aes[a])}

C8_DefaultAesMap ==
  Has(loc, "aes_map") =>
    /\ \A K \in DOMAIN GivenAesMap : loc.aes_map[K] = GivenAesMap[K]
    /\ ~Has(GivenAesMap, loc.kind) => loc.aes_map[loc.kind] = AesSet(coll) \ {"y"}
    /\ \A K \in {"credible_interval", "point_estimate"} :
         ~Has(GivenAesMap, K) =>
           IF data.multi THEN loc.aes_map[K] = {"color", "y"} ELSE ~Has(loc.aes_map, K)

C8_Witness ==
  /\ stage = "done" /\ data.multi /\ OwnCollection
  /\ DOMAIN GivenAesMap = {"credible_interval"}
  /\ DOMAIN GivenAes = {"marker"}
  /\ loc.aes_map[loc.kind] = {"color", "marker"}
  /\ loc.aes_map["credible_interval"] = {"color"}
  /\ loc.aes_map["point_estimate"] = {"color", "y"}

\* C9: the aesthetics of point_estimate are used for point_estimate_text when
\* the effective aes_map has the first key and the caller did not give the
\* second; a caller entry for point_estimate_text is left as given; when
\* neither key is present no point_estimate_text entry is created.
C9_TextFollowsPoint ==
  Has(loc, "aes_map") =>
    /\ Has(GivenAesMap, "point_estimate_text") =>
         loc.aes_map["point_estimate_text"] = GivenAesMap["point_estimate_text"]
    /\ (~Has(GivenAesMap, "point_estimate_text") /\ Has(loc.aes_map, "point_estimate")) =>
         loc.aes_map["point_estimate_text"] = loc.aes_map["point_estimate"]
    /\ (~Has(GivenAesMap, "point_estimate_text") /\ ~Has(loc.aes_map, "point_estimate")) =>
         ~Has(loc.aes_map, "point_estimate_text")
    /\ (~data.multi /\ {"point_estimate", "point_estimate_text"} \cap DOMAIN GivenAesMap = {}) =>
         ~Has(loc.aes_map, "point_estimate_text")

C9_Witness ==
  /\ stage = "done" /\ ~data.multi
  /\ Has(GivenAesMap, "point_estimate") /\ ~Has(GivenAesMap, "point_estimate_text")
  /\ loc.aes_map["point_estimate_text"] = {"y"}

\* remove_axis was called by this call
RemoveAxisCalled == "map:remove_axis" \in Elems(log)

RemoveAxisNotFalse == IsNotFalse(Get(GivenPlotKwargs, "remove_axis", Kw(EmptyDict)))

\* C10 as stated: remove_axis is called unless plot_kwargs["remove_axis"] is
\* False, for every kind and whether or not the density is disabled.
C10_AsStated ==
  stage = "done" => (RemoveAxisCalled <=> RemoveAxisNotFalse)

\* C10 amended: remove_axis is called exactly when the kind is "kde" and
\* plot_kwargs["remove_axis"] is not False, whether or not the density artist
\* is disabled; for every other kind the call is skipped.
C10_RemoveAxisOnlyKde ==
  /\ stage \in {"return", "done"} =>
       /\ RemoveAxisCalled <=> (loc.kind = "kde" /\ RemoveAxisNotFalse)
       /\ RemoveAxisCalled => coll.axis_removed
       /\ OwnCollection => (coll.axis_removed => RemoveAxisCalled)
  /\ stage \notin {"return", "done"} => ~RemoveAxisCalled

C10_Witness ==
  /\ stage = "done" /\ loc.kind = "kde" /\ Has(GivenPlotKwargs, "kde")
  /\ ~IsNotFalse(loc.density_kwargs) /\ ~Has(GivenPlotKwargs, "remove_axis")
  /\ RemoveAxisCalled /\ coll.axis_removed

\* C11: plot_dist returns a PlotCollection on every path that does not raise;
\* when the caller passes plot_collection, that collection is the one worked
\* on and returned, no collection is created, and the backend and pc_kwargs
\* arguments leave no trace in it.
C11_ReturnsPassedCollection ==
  /\ stage = "done" => (ret = "coll" /\ coll.exists /\ exc = "none")
  /\ ret = "coll" => stage = "done"
  /\ (OwnCollection /\ coll.exists) => "wrap" \in Elems(log)
  /\ ~OwnCollection =>
       /\ "wrap" \notin Elems(log)
       /\ ~Has(loc, "backend")
       /\ coll.exists
       /\ coll.backend = args.plot_collection.backend
       /\ coll.aes = args.plot_collection.aes
       /\ coll.cols = args.plot_collection.cols
       /\ coll.col_wrap = args.plot_collection.col_wrap
       /\ \A v \in VarNames :
            /\ DOMAIN args.plot_collection.viz[v] \subseteq DOMAIN coll.viz[v]
            /\ coll.viz[v]["plot"] = args.plot_collection.viz[v]["plot"]

C11_Witness ==
  /\ stage = "done" /\ ret = "coll" /\ ~OwnCollection /\ calls = 2
  /\ Has(args, "pc_kwargs") /\ args.backend = "bokeh"
  /\ coll.backend = "none" /\ coll.col_wrap = 5
  /\ "map:density" \in Elems(log)

GivenPcKwargs == Get(args, "pc_kwargs", EmptyDict)

\* the dimensions of variable v that the call does not reduce over
NonSampleDims(v) == loc.distribution.vardims[v] \ Elems(loc.sample_dims)

\* the artists drawn for variable v, the "plot" entry left out
ArtistsOf(v) == DOMAIN coll.viz[v] \ {"plot"}

\* the parts of C12 about cols and col_wrap
ColsAsDocumented ==
  /\ IF Has(GivenPcKwargs, "cols") THEN coll.cols = GivenPcKwargs.cols
     ELSE /\ Head(coll.cols) = "__variable__"
          /\ Elems(Tail(coll.cols))
               = Elems(loc.distribution.dims) \ ({"model"} \cup Elems(loc.sample_dims))
          /\ Len(coll.cols) = 1 + Cardinality(Elems(Tail(coll.cols)))
  /\ coll.col_wrap = Get(GivenPcKwargs, "col_wrap", 5)

WithListSampleDims(a) ==
  [sample_dims |-> [str |-> FALSE, v |-> <<a.sample_dims.v>>]] @@ a

StringSampleDims == Has(args, "sample_dims") /\ args.sample_dims.str

\* C13: a string sample_dims s is used as the one-element list [s]: the
\* resolved sample dimensions are those of the call with [s], the default
\* columns leave out s and no character of it, and the density, the credible
\* interval and the point estimate reduce over exactly the dimension s.
C13_StringAsOneDim ==
  (StringSampleDims /\ Has(loc, "sample_dims")) =>
    LET s == args.sample_dims.v
    IN /\ loc.sample_dims = ResolveSampleDims(WithListSampleDims(args), rcParams)
       /\ loc.sample_dims = <<s>>
       /\ coll.exists =>
            /\ coll.cols = DefaultCols(loc.distribution, <<s>>)
            /\ s \notin Elems(coll.cols)
            /\ \A v \in VarNames : \A a \in DOMAIN coll.viz[v] :
                 s \notin coll.viz[v][a].dims
       /\ Has(loc, "density") => loc.density.dims = <<s>>
       /\ Has(loc, "ci") => loc.ci.dims = <<s>>
       /\ Has(loc, "point") => loc.point.dims = <<s>>

C13_Witness ==
  /\ stage = "done" /\ StringSampleDims /\ args.sample_dims.v = "sample"
  /\ coll.cols = <<"__variable__", "hierarchy">>
  /\ Has(loc, "density") /\ loc.density.dims = <<"sample">>
  /\ Has(loc, "ci") /\ loc.ci.dims = <<"sample">>
  /\ Has(loc, "point") /\ loc.point.dims = <<"sample">>

\* the value an option takes: the argument when given, else the rcParams entry
ArgOrRcParam(arg, key) == IF Has(args, arg) THEN args[arg] ELSE rcParams[key]

\* C14: sample_dims, kind, point_estimate, ci_kind and ci_prob are the
\* rcParams entries exactly when the argument is None and the argument as
\* given otherwise; ci_kind is "eti" when it is None and rcParams has no
\* "stats.ci_kind"; the statistics computed and the artists drawn use the
\* resolved values.
C14_DefaultsFromRcParams ==
  Has(loc, "kind") =>
    /\ loc.kind = ArgOrRcParam("kind", "plot_density_kind")
    /\ loc.point_estimate = ArgOrRcParam("point_estimate", "stats_point_estimate")
    /\ loc.ci_prob = ArgOrRcParam("ci_prob", "stats_ci_prob")
    /\ loc.ci_kind = IF Has(args, "ci_kind") THEN args.ci_kind
                     ELSE IF Has(rcParams, "stats_ci_kind") THEN rcParams.stats_ci_kind
                     ELSE "eti"
    /\ Elems(loc.sample_dims)
         = Elems(IF ~Has(args, "sample_dims") THEN rcParams.data_sample_dims
                 ELSE IF args.sample_dims.str THEN <<args.sample_dims.v>>
                 ELSE args.sample_dims.v)
    /\ Has(loc, "density") =>
         /\ loc.density.kind = ArgOrRcParam("kind", "plot_density_kind")
         /\ \A v \in VarNames : Has(coll.viz[v], loc.density.kind)
    /\ Has(loc, "ci") =>
         /\ loc.ci.prob = ArgOrRcParam("ci_prob", "stats_ci_prob")
         /\ (~Has(args, "ci_kind") /\ ~Has(rcParams, "stats_ci_kind")) => loc.ci.fn = "eti"
         /\ (~Has(args, "ci_kind") /\ Has(rcParams, "stats_ci_kind"))
              => loc.ci.fn = rcParams.stats_ci_kind
         /\ Has(args, "ci_kind") => loc.ci.fn = args.ci_kind
    /\ Has(loc, "point") =>
         loc.point.fn = ArgOrRcParam("point_estimate", "stats_point_estimate")

C14_Witness ==
  /\ stage = "done" /\ scenario = "defaults"
  /\ ~Has(rcParams, "stats_ci_kind") /\ ~Has(args, "ci_kind") /\ loc.ci.fn = "eti"
  /\ ~Has(args, "kind") /\ loc.density.kind = "ecdf"
  /\ ~Has(args, "ci_prob") /\ loc.ci.prob = 50
  /\ Has(args, "point_estimate") /\ rcParams.stats_point_estimate = "median"
  /\ loc.point.fn = "mean"
  /\ ~Has(args, "sample_dims") /\ loc.sample_dims = <<"sample">>

\* the stages up to the density and up to the point statistic
UpToDensity == {"process", "collection", "aes_map", "density"}
UpToPoint == UpToDensity \cup {"rescale", "credible_interval", "point"}

DensityEnabled == IsNotFalse(Get(loc.plot_kwargs, loc.kind, Kw(EmptyDict)))

PointEnabled ==
  \/ IsNotFalse(Get(loc.plot_kwargs, "point_estimate", Kw(EmptyDict)))
  \/ IsNotFalse(Get(loc.plot_kwargs, "point_estimate_text", Kw(EmptyDict)))

UnsupportedKind == Has(loc, "kind") /\ loc.kind \notin {"kde", "ecdf"}

UnsupportedPoint == Has(loc, "kind") /\ loc.point_estimate \notin {"mean", "median"}

C16_RaiseLeavesCollection ==
  (stage = "raised" /\ ~OwnCollection
     /\ exc \in {"ValueError", "NotImplementedError"}) =>
    coll = args.plot_collection

\* C17: with multiple models, a call on a collection returned by an earlier
\* call leaves the values of the "y" aesthetic as the earlier call left them:
\* the rescaling by 0.15 times the maximum density is not applied again.
C17_YRescaledOnce ==
  (data.multi /\ ~OwnCollection) => coll.yvals = args.plot_collection.yvals

\* the stages after the point statistic
AfterPoint ==
  {"point_estimate", "point_estimate_text", "title", "remove_axis", "return", "done"}

Logged(entry) == entry \in Elems(log)

\* the height of the text of variable v in hundredths (lines 316-326)
ExpectedPointY(v) ==
  IF ~DensityEnabled THEN 100
  ELSE IF loc.kind = "kde" THEN 4 * data.maxdens[v]
  ELSE 4

\* C18: in the credible-interval, point-estimate and point-estimate-text
\* stages every value read was computed earlier in the call: ci is defined
\* when the interval is drawn, point and the point-estimate aesthetics when
\* the point is drawn, point_y when the text is drawn (1 with the density
\* disabled, 0.04 times the maximum density for "kde", 0.04 for "ecdf"); the
\* point statistic is computed exactly when point_estimate or
\* point_estimate_text is not False; no UnboundLocalError comes from these
\* stages.
C18_ValuesDefinedWhenRead ==
  /\ Logged("map:credible_interval") =>
       /\ Has(loc, "ci") /\ loc.ci.fn = loc.ci_kind
       /\ Logged("stat:" \o loc.ci_kind)
  /\ Logged("map:point_estimate") =>
       /\ Has(loc, "point") /\ Has(loc, "pe_aes") /\ Has(loc, "pe_ignore")
       /\ loc.point.fn = loc.point_estimate
  /\ Logged("map:point_estimate_text") =>
       /\ Has(loc, "point") /\ Has(loc, "point_y")
       /\ \A v \in VarNames : loc.point_y[v] = ExpectedPointY(v)
  /\ Has(loc, "point") <=> (Logged("stat:mean") \/ Logged("stat:median"))
  /\ Has(loc, "point") => PointEnabled
  /\ (stage \in AfterPoint /\ PointEnabled) => Has(loc, "point")
  /\ stage \in {"return", "done"} =>
       /\ IsNotFalse(Get(loc.plot_kwargs, "credible_interval", Kw(EmptyDict)))
            <=> Logged("map:credible_interval")
       /\ IsNotFalse(loc.pe_kwargs) <=> Logged("map:point_estimate")
       /\ IsNotFalse(loc.pet_kwargs) <=> Logged("map:point_estimate_text")
  /\ exc = "UnboundLocalError" =>
       /\ loc.ci_kind \in {"eti", "hdi"}
       /\ ~Has(loc, "ci") /\ ~Has(loc, "pe_kwargs") /\ ~Has(loc, "point")
       /\ ~Logged("map:credible_interval")

\* the text drawn without the point and without the density
C18_Witness ==
  /\ stage = "done"
  /\ Logged("map:point_estimate_text") /\ ~Logged("map:point_estimate")
  /\ ~DensityEnabled /\ loc.point_y["mu"] = 100
  /\ Logged("map:credible_interval") /\ loc.ci.fn = "hdi"
  /\ loc.point.fn = "median"

====
